---- MODULE Spec2Model ----
(***************************************************************************)
(* Model of the SCD2 customer dimension loader (load_dim_customer) and of  *)
(* the customer cost attribution loader (load_fact_customer_cost).         *)
(*                                                                         *)
(* Tables are sequences of rows in insertion order.  Dates are the         *)
(* naturals 1..MaxDate (ISO date strings compare like their day number);   *)
(* NullDate stands for SQL NULL in effective_to.  Every db.execute is one  *)
(* atomic step, so the states between two statements of a load are         *)
(* reachable states of the model.                                          *)
(***************************************************************************)
EXTENDS Naturals, Integers, Sequences, FiniteSets, TLC

\* ------------------------------------------------------------------ bounds
MaxDate == 2
MaxKey == 3
MaxBatch == 2

\* ------------------------------------------------------- value domains
NullDate == 0
NullId == 0
Dates == 1..MaxDate
CustomerIds == {1, 2}
Segments == {"standard", "premium"}
Emails == {"amy@x.io", "AMY@X.IO", "bob@x.io"}
FirstNames == {"Amy", "Bob"}

VARIABLES
    dim_customer,   \* table dim_customer: sequence of version rows
    pc,             \* position of the load_dim_customer call
    snapshot,       \* df: the snapshot rows of the call in progress
    snapshot_date,  \* snapshot_date of the call in progress
    current_map,    \* {customer_id: segment} read at the start of the call
    next_key,       \* next surrogate key of the call in progress
    idx,            \* index of the snapshot row the loop is at
    ret,            \* value returned by the last completed call
    dim_before,     \* history: dim_customer when the call in progress started
    last_date,      \* history: snapshot_date of the latest call of a dated pipeline
    repeated,       \* history: the call repeats its predecessor's snapshot and date
    raw_cur,        \* table raw_cur: sequence of raw cost line items
    dim_service,    \* table dim_service: sequence of service rows
    fact_customer_cost, \* table fact_customer_cost: set of fact rows
    fact_current,   \* history: dim_customer has not changed since the last attribution run
    fact_runs,      \* history: attribution runs since dim_customer last changed (up to 2)
    fact_ret,       \* value returned by the last load_fact_customer_cost call
    cur_file,       \* history: the rows of the file load_cur_parquet read last
    cur_ret,        \* value returned by the last load_cur_parquet call
    raw_cur_created, \* the table raw_cur exists
    cur_raised,     \* exception that ended the last load_cur_parquet call, or "none"
    cur_probe,      \* history: whether the path of that call existed, and the file's columns
    service_runs,   \* history: load_dim_service runs since raw_cur last changed (up to 2)
    service_ret,    \* value returned by the last load_dim_service call
    raced           \* history: another run has written between two statements of a run

dimVars == <<dim_customer, pc, snapshot, snapshot_date, current_map, next_key,
             idx, ret, dim_before, last_date, repeated>>

factVars == <<raw_cur, dim_service, fact_customer_cost, fact_current,
              fact_runs, fact_ret, cur_file, cur_ret, raw_cur_created,
              cur_raised, cur_probe, service_runs, service_ret>>

vars == <<dimVars, factVars, raced>>

\* ------------------------------------------------------------- helpers
Range(s) == {s[i] : i \in 1..Len(s)}

Max(S) == CHOOSE m \in S : \A x \in S : x <= m

\* PIIMasker.mask_email: strip, lower-case, salted SHA256 hex digest.  The
\* digest is modelled by a distinct opaque token per normalised address.
NormaliseEmail(e) ==
    CASE e = "amy@x.io" -> "amy@x.io"
      [] e = "AMY@X.IO" -> "amy@x.io"
      [] e = "bob@x.io" -> "bob@x.io"

mask_email(e) ==
    CASE NormaliseEmail(e) = "amy@x.io" -> "3f9a"
      [] NormaliseEmail(e) = "bob@x.io" -> "c071"

\* every batch of at most MaxBatch rows over a set of rows, batches that
\* repeat a customer_id included
Batches(rows) == UNION {[1..n -> rows] : n \in 0..MaxBatch}

\* the contact details a customer is first known by
HomeEmail(cid) == IF cid = 1 THEN "amy@x.io" ELSE "bob@x.io"

\* the first name that comes with an e-mail address
NameOf(e) == IF NormaliseEmail(e) = "amy@x.io" THEN "Amy" ELSE "Bob"

\* snapshot rows in which the contact details of a customer never vary
PlainRows ==
    {r \in [customer_id : CustomerIds, segment : Segments,
            email : Emails, first_name : FirstNames] :
        r.email = HomeEmail(r.customer_id) /\ r.first_name = NameOf(r.email)}

\* snapshot rows of one customer whose e-mail and first name vary
PiiRows ==
    {r \in [customer_id : {1}, segment : Segments,
            email : Emails, first_name : FirstNames] :
        r.first_name = NameOf(r.email)}

\* the snapshots of at most MaxBatch such rows
PlainBatches == Batches(PlainRows)

PiiBatches == Batches(PiiRows)

\* the snapshots of exactly one row
OneRowBatches == {b \in PlainBatches : Len(b) = 1}

\* snapshot rows of one customer over the three segments of the fixtures
SegmentRows ==
    [customer_id : {1}, segment : Segments \cup {"enterprise"},
     email : {"amy@x.io"}, first_name : {"Amy"}]

\* a snapshot row whose customer_id is missing (None)
NullRows ==
    [customer_id : {NullId}, segment : {"standard"},
     email : {"amy@x.io"}, first_name : {"Amy"}]

\* SELECT customer_id, segment FROM dim_customer WHERE is_current = TRUE
CurrentRows(dim) == {r \in Range(dim) : r.is_current}

\* current_map = {row["customer_id"]: row["segment"] for row in existing}.
\* The SELECT has no ORDER BY: when a customer_id has several current rows,
\* the dict keeps the segment of whichever row the engine returns last.
CurrentMapsOver(dim, segments) ==
    LET ids == {r.customer_id : r \in CurrentRows(dim)}
    IN  {f \in [ids -> segments] :
            \A c \in ids : \E r \in CurrentRows(dim) :
                r.customer_id = c /\ r.segment = f[c]}

\* current_map over the segments of PlainRows and PiiRows
CurrentMaps(dim) == CurrentMapsOver(dim, Segments)

\* slip: the "+ 1" of next_key is lost
NextKey_NoIncrement(dim) ==
    IF dim = <<>> THEN 1 ELSE Max({r.customer_key : r \in Range(dim)})

\* SELECT COALESCE(MAX(customer_key), 0) + 1
NextKey(dim) ==
    IF dim = <<>> THEN 1 ELSE Max({r.customer_key : r \in Range(dim)}) + 1

\* slip: the row is stamped with the default date instead of snapshot_date
InsertCustomer_DefaultDate(dim, key, row, effective_from) ==
    Append(dim, [customer_key   |-> key,
                 customer_id    |-> row.customer_id,
                 email_token    |-> mask_email(row.email),
                 first_name     |-> row.first_name,
                 segment        |-> row.segment,
                 effective_from |-> MaxDate,
                 effective_to   |-> NullDate,
                 is_current     |-> TRUE])

\* _insert_customer: INSERT ... VALUES (key, cid, ..., effective_from, NULL, TRUE, ...)
InsertCustomer(dim, key, row, effective_from) ==
    Append(dim, [customer_key   |-> key,
                 customer_id    |-> row.customer_id,
                 email_token    |-> mask_email(row.email),
                 first_name     |-> row.first_name,
                 segment        |-> row.segment,
                 effective_from |-> effective_from,
                 effective_to   |-> NullDate,
                 is_current     |-> TRUE])

\* slip: the WHERE clause of the UPDATE lacks "AND is_current = TRUE"
ExpireCurrent_EveryVersion(dim, cid, now_ts) ==
    [i \in 1..Len(dim) |->
        IF dim[i].customer_id = cid
        THEN [dim[i] EXCEPT !.effective_to = now_ts, !.is_current = FALSE]
        ELSE dim[i]]

\* slip: the UPDATE sets effective_to and forgets is_current
ExpireCurrent_KeepsFlag(dim, cid, now_ts) ==
    [i \in 1..Len(dim) |->
        IF dim[i].customer_id = cid /\ dim[i].is_current
        THEN [dim[i] EXCEPT !.effective_to = now_ts]
        ELSE dim[i]]

\* UPDATE dim_customer SET effective_to = now_ts, is_current = FALSE
\*  WHERE customer_id = cid AND is_current = TRUE
ExpireCurrent(dim, cid, now_ts) ==
    [i \in 1..Len(dim) |->
        IF dim[i].customer_id = cid /\ dim[i].is_current
        THEN [dim[i] EXCEPT !.effective_to = now_ts, !.is_current = FALSE]
        ELSE dim[i]]

\* slip: change detection compares the stored segment with the e-mail
Transition_ComparesEmail(cmap, row) ==
    IF row.customer_id \notin DOMAIN cmap THEN "new"
    ELSE IF cmap[row.customer_id] /= row.email THEN "changed"
    ELSE "unchanged"

\* the branch the loop takes for a snapshot row
Transition(cmap, row) ==
    IF row.customer_id \notin DOMAIN cmap THEN "new"
    ELSE IF cmap[row.customer_id] /= row.segment THEN "changed"
    ELSE "unchanged"

\* number of INSERTs the loop will issue for the batch
Inserts(cmap, snap) ==
    Cardinality({i \in 1..Len(snap) : Transition(cmap, snap[i]) /= "unchanged"})

\* CUR_EXPECTED_COLUMNS: the columns a CUR export must have
CUR_EXPECTED_COLUMNS ==
    {"identity_line_item_id", "identity_time_interval", "bill_payer_account_id",
     "line_item_usage_account_id", "line_item_line_item_type",
     "line_item_usage_start_date", "line_item_usage_end_date",
     "line_item_product_code", "line_item_usage_type", "line_item_operation",
     "line_item_usage_amount", "line_item_unblended_cost",
     "line_item_blended_cost", "line_item_currency_code"}

\* slip: only the empty frame is reported, missing columns pass
validate_cur_schema_OnlyEmpty(columns) ==
    IF columns = {} THEN <<"DataFrame has no columns">> ELSE <<>>

\* validate_cur_schema: the list of error messages for a frame's columns
validate_cur_schema(columns) ==
    IF columns = {} THEN <<"DataFrame has no columns">>
    ELSE IF CUR_EXPECTED_COLUMNS \ columns /= {}
    THEN <<"Missing required columns">>
    ELSE <<>>

\* no load_cur_parquet call has been made yet
NoProbe == [exists |-> FALSE, columns |-> {}]

\* ------------------------------------------------------------- actions
Init ==
    /\ dim_customer = <<>>
    /\ pc = "idle"
    /\ snapshot = <<>>
    /\ snapshot_date = 1
    /\ current_map = <<>>
    /\ next_key = 1
    /\ idx = 1
    /\ ret = 0
    /\ dim_before = <<>>
    /\ last_date = 1
    /\ repeated = FALSE
    /\ raw_cur = <<>>
    /\ dim_service = <<>>
    /\ fact_customer_cost = {}
    /\ fact_current = FALSE
    /\ fact_runs = 0
    /\ fact_ret = 0
    /\ cur_file = <<>>
    /\ cur_ret = 0
    /\ raw_cur_created = FALSE
    /\ cur_raised = "none"
    /\ cur_probe = NoProbe
    /\ service_runs = 0
    /\ service_ret = 0
    /\ raced = FALSE

\* load_dim_customer up to the loop: read the snapshot, current_map, next_key
Begin(snap, date, cmap) ==
    /\ NextKey(dim_customer) - 1 + Inserts(cmap, snap) <= MaxKey
    /\ snapshot' = snap
    /\ snapshot_date' = date
    /\ current_map' = cmap
    /\ next_key' = NextKey(dim_customer)
    /\ idx' = 1
    /\ pc' = "loop"
    /\ dim_before' = dim_customer
    /\ UNCHANGED dim_customer

\* a call with any snapshot and any snapshot_date
LoadStart ==
    /\ pc = "idle"
    /\ \E snap \in PlainBatches, date \in Dates,
          cmap \in CurrentMaps(dim_customer) : Begin(snap, date, cmap)
    /\ repeated' = FALSE
    /\ UNCHANGED <<ret, last_date, factVars, raced>>

\* a call whose snapshot_date is not earlier than that of the call before it
LoadStartOrdered ==
    /\ pc = "idle"
    /\ \E snap \in PlainBatches, date \in Dates,
          cmap \in CurrentMaps(dim_customer) :
        /\ date >= last_date
        /\ Begin(snap, date, cmap)
        /\ last_date' = date
    /\ repeated' = FALSE
    /\ UNCHANGED <<ret, factVars, raced>>

\* a call on a snapshot whose rows differ in their contact details
LoadStartPii ==
    /\ pc = "idle"
    /\ \E snap \in PiiBatches, date \in Dates,
          cmap \in CurrentMaps(dim_customer) : Begin(snap, date, cmap)
    /\ repeated' = FALSE
    /\ UNCHANGED <<ret, last_date, factVars, raced>>

\* a call on a snapshot that may hold rows without a customer_id
LoadStartNull ==
    /\ pc = "idle"
    /\ \E snap \in Batches(PlainRows \cup NullRows), date \in Dates,
          cmap \in CurrentMaps(dim_customer) : Begin(snap, date, cmap)
    /\ repeated' = FALSE
    /\ UNCHANGED <<ret, last_date, factVars, raced>>

\* loop body, "cid not in current_map" with cid None: the INSERT statement
\* reads VALUES (key, None, ...), the database rejects it and the exception
\* leaves load_dim_customer; the statements already executed stay
RowRaises ==
    /\ pc = "loop" /\ idx <= Len(snapshot)
    /\ Transition(current_map, snapshot[idx]) = "new"
    /\ snapshot[idx].customer_id = NullId
    /\ pc' = "idle"
    /\ snapshot' = <<>>
    /\ snapshot_date' = 1
    /\ current_map' = <<>>
    /\ next_key' = 1
    /\ idx' = 1
    /\ dim_before' = <<>>
    /\ repeated' = FALSE
    /\ UNCHANGED <<dim_customer, ret, last_date, factVars, raced>>

\* slip: the "next_key += 1" after the INSERT of a new customer is lost
RowNew_KeepsKey ==
    /\ pc = "loop" /\ idx <= Len(snapshot)
    /\ Transition(current_map, snapshot[idx]) = "new"
    /\ snapshot[idx].customer_id /= NullId
    /\ dim_customer' = InsertCustomer(dim_customer, next_key, snapshot[idx], snapshot_date)
    /\ idx' = idx + 1
    /\ UNCHANGED <<pc, snapshot, snapshot_date, current_map, next_key, ret,
                   dim_before, last_date, repeated, factVars, raced>>

\* loop body, "cid not in current_map": one INSERT
RowNew ==
    /\ pc = "loop" /\ idx <= Len(snapshot)
    /\ Transition(current_map, snapshot[idx]) = "new"
    /\ snapshot[idx].customer_id /= NullId
    /\ dim_customer' = InsertCustomer(dim_customer, next_key, snapshot[idx], snapshot_date)
    /\ next_key' = next_key + 1
    /\ idx' = idx + 1
    /\ UNCHANGED <<pc, snapshot, snapshot_date, current_map, ret,
                   dim_before, last_date, repeated, factVars,
                   raced>>

\* slip: a row dated before the current version of its customer is passed over
RowExpire_SkipsBackdated ==
    /\ pc = "loop" /\ idx <= Len(snapshot)
    /\ Transition(current_map, snapshot[idx]) = "changed"
    /\ IF \E r \in CurrentRows(dim_customer) :
            r.customer_id = snapshot[idx].customer_id /\ snapshot_date < r.effective_from
       THEN /\ idx' = idx + 1
            /\ UNCHANGED <<dim_customer, pc>>
       ELSE /\ dim_customer' = ExpireCurrent(dim_customer, snapshot[idx].customer_id,
                                             snapshot_date)
            /\ pc' = "insert"
            /\ UNCHANGED idx
    /\ UNCHANGED <<snapshot, snapshot_date, current_map, next_key, ret,
                   dim_before, last_date, repeated, factVars, raced>>

\* loop body, "current_map[cid] != segment", first statement: the UPDATE
RowExpire ==
    /\ pc = "loop" /\ idx <= Len(snapshot)
    /\ Transition(current_map, snapshot[idx]) = "changed"
    /\ dim_customer' = ExpireCurrent(dim_customer, snapshot[idx].customer_id, snapshot_date)
    /\ pc' = "insert"
    /\ UNCHANGED <<snapshot, snapshot_date, current_map, next_key, idx, ret,
                   dim_before, last_date, repeated, factVars,
                   raced>>

\* loop body, "current_map[cid] != segment", second statement: the INSERT
RowInsert ==
    /\ pc = "insert"
    /\ dim_customer' = InsertCustomer(dim_customer, next_key, snapshot[idx], snapshot_date)
    /\ next_key' = next_key + 1
    /\ idx' = idx + 1
    /\ pc' = "loop"
    /\ UNCHANGED <<snapshot, snapshot_date, current_map, ret,
                   dim_before, last_date, repeated, factVars,
                   raced>>

\* loop body, neither branch: no statement
RowUnchanged ==
    /\ pc = "loop" /\ idx <= Len(snapshot)
    /\ Transition(current_map, snapshot[idx]) = "unchanged"
    /\ idx' = idx + 1
    /\ UNCHANGED <<dim_customer, pc, snapshot, snapshot_date, current_map,
                   next_key, ret, dim_before, last_date, repeated, factVars,
                   raced>>

\* the loop has consumed every snapshot row; only the final count is left
LoopDone == pc = "loop" /\ idx > Len(snapshot)

\* slip: the final count has "WHERE is_current = TRUE"
LoadReturn_CountsCurrent ==
    /\ LoopDone
    /\ ret' = Cardinality({i \in 1..Len(dim_customer) : dim_customer[i].is_current})
    /\ pc' = "idle"
    /\ snapshot' = <<>>
    /\ snapshot_date' = 1
    /\ current_map' = <<>>
    /\ next_key' = 1
    /\ idx' = 1
    /\ dim_before' = <<>>
    /\ repeated' = FALSE
    /\ UNCHANGED <<dim_customer, last_date, factVars, raced>>

\* SELECT COUNT(*) FROM dim_customer; return count (the locals die)
LoadReturn ==
    /\ LoopDone
    /\ ret' = Len(dim_customer)
    /\ pc' = "idle"
    /\ snapshot' = <<>>
    /\ snapshot_date' = 1
    /\ current_map' = <<>>
    /\ next_key' = 1
    /\ idx' = 1
    /\ dim_before' = <<>>
    /\ repeated' = FALSE
    /\ UNCHANGED <<dim_customer, last_date, factVars, raced>>

\* the call returns its count and the caller at once loads the same snapshot
\* file again with the same snapshot_date
LoadAgain ==
    /\ LoopDone
    /\ ~repeated
    /\ ret' = Len(dim_customer)
    /\ \E cmap \in CurrentMaps(dim_customer) : Begin(snapshot, snapshot_date, cmap)
    /\ repeated' = TRUE
    /\ UNCHANGED <<last_date, factVars, raced>>

\* the statements of the loop and the final count
LoopStep ==
    \/ RowNew
    \/ RowExpire
    \/ RowInsert
    \/ RowUnchanged
    \/ LoadReturn

\* any sequence of calls, with any snapshot dates
Next ==
    \/ LoadStart
    \/ LoopStep

Spec == Init /\ [][Next]_vars

\* calls that may each be repeated at once with the same snapshot and date
NextAgain ==
    \/ LoadStart
    \/ LoadAgain
    \/ LoopStep

SpecAgain == Init /\ [][NextAgain]_vars

\* calls with chronologically non-decreasing snapshot dates
NextOrdered ==
    \/ LoadStartOrdered
    \/ LoopStep

SpecOrdered == Init /\ [][NextOrdered]_vars

\* calls whose snapshots may hold rows without a customer_id
NextNull ==
    \/ LoadStartNull
    \/ RowRaises
    \/ LoopStep

SpecNull == Init /\ [][NextNull]_vars

\* the run is aborted between two statements of the loop (the process is
\* stopped or db.execute raises): no statement is wrapped in a transaction,
\* so what the run has executed so far stays in dim_customer
LoadAbort ==
    /\ pc \in {"loop", "insert"}
    /\ pc' = "idle"
    /\ snapshot' = <<>>
    /\ snapshot_date' = 1
    /\ current_map' = <<>>
    /\ next_key' = 1
    /\ idx' = 1
    /\ dim_before' = <<>>
    /\ repeated' = FALSE
    /\ UNCHANGED <<dim_customer, ret, last_date, factVars, raced>>

\* calls that may be aborted at any row-processing step
NextAbort ==
    \/ LoadStart
    \/ LoadAbort
    \/ LoopStep

SpecAbort == Init /\ [][NextAbort]_vars

\* a call on a snapshot of one customer's rows over three segments
LoadStartSegments ==
    /\ pc = "idle"
    /\ \E snap \in Batches(SegmentRows), date \in Dates,
          cmap \in CurrentMapsOver(dim_customer, Segments \cup {"enterprise"}) :
              Begin(snap, date, cmap)
    /\ repeated' = FALSE
    /\ UNCHANGED <<ret, last_date, factVars, raced>>

\* calls whose snapshots move a customer among three segments
NextSegments ==
    \/ LoadStartSegments
    \/ LoopStep

SpecSegments == Init /\ [][NextSegments]_vars

\* calls whose snapshots vary the contact details of a customer
NextPii ==
    \/ LoadStartPii
    \/ LoopStep

SpecPii == Init /\ [][NextPii]_vars

\* ------------------------------------------------ the call as a whole
RECURSIVE RunLoop(_, _, _, _, _, _)
\* the for loop of load_dim_customer from row i on
RunLoop(dim, snap, i, date, cmap, key) ==
    IF i > Len(snap) THEN dim
    ELSE IF Transition(cmap, snap[i]) = "new"
    THEN RunLoop(InsertCustomer(dim, key, snap[i], date), snap, i + 1, date, cmap, key + 1)
    ELSE IF Transition(cmap, snap[i]) = "changed"
    THEN RunLoop(InsertCustomer(ExpireCurrent(dim, snap[i].customer_id, date),
                                key, snap[i], date),
                 snap, i + 1, date, cmap, key + 1)
    ELSE RunLoop(dim, snap, i + 1, date, cmap, key)

\* dim_customer after load_dim_customer(db, snapshot, snapshot_date)
load_dim_customer(dim, snap, date, cmap) ==
    RunLoop(dim, snap, 1, date, cmap, NextKey(dim))

\* the statement-by-statement run and the call as a whole agree
StepsAgreeWithCall ==
    LoopDone =>
        dim_customer = load_dim_customer(dim_before, snapshot, snapshot_date, current_map)

\* a second load_dim_customer invocation on the same database runs from its
\* reads to its last write after the run in progress has read current_map
\* and next_key and before it writes (nothing in the loader or the connector
\* serialises runs); the model follows one such interleaving per behaviour,
\* the second run loading one row with the same snapshot_date
OtherRun ==
    /\ pc = "loop" /\ idx = 1
    /\ ~raced
    /\ LET room == MaxKey + 1 - NextKey(dim_customer)
       IN  \E cmap \in CurrentMaps(dim_customer) :
           \E snap \in {b \in OneRowBatches : Inserts(cmap, b) <= room} :
               dim_customer' = load_dim_customer(dim_customer, snap, snapshot_date, cmap)
    /\ dim_customer' /= dim_customer
    /\ raced' = TRUE
    /\ UNCHANGED <<pc, snapshot, snapshot_date, current_map, next_key, idx, ret,
                   dim_before, last_date, repeated, factVars>>

\* a call starts while no run has yet interleaved with another
LoadStartSerial == ~raced /\ LoadStart

\* runs up to the end of the first run that another run interleaves with
NextRace ==
    \/ LoadStartSerial
    \/ OtherRun
    \/ LoopStep

SpecRace == Init /\ [][NextRace]_vars

\* -------------------------------------------------- cost attribution
\* money is counted in mills (1/1000 of the currency unit) in raw_cur and in
\* cents in fact_customer_cost; NullCost stands for SQL NULL, NoneCost for a
\* missing value (None) in a file
NullCost == -1

NoneCost == -2

RawRow(id, d, product, cost) ==
    [identity_line_item_id        |-> id,
     line_item_usage_start_date   |-> d,
     line_item_product_code       |-> product,
     line_item_usage_type         |-> "Usage",
     line_item_unblended_cost     |-> cost]

\* slip: None is written as the text of the value like any other value
StoredRow_KeepsNone(row) == row

\* the value the INSERT of load_cur_parquet stores for a file row: NULL for
\* None, the text of the value otherwise
StoredRow(row) ==
    [row EXCEPT !.line_item_unblended_cost = IF @ = NoneCost THEN NullCost ELSE @]

\* existing_ids: SELECT identity_line_item_id FROM raw_cur
ExistingIds(raw) == {raw[i].identity_line_item_id : i \in 1..Len(raw)}

\* slip: the filter on existing_ids is lost
NewRows_NoFilter(raw, file) == file

\* new_rows = df.filter(~identity_line_item_id.is_in(existing_ids))
NewRows(raw, file) ==
    SelectSeq(file, LAMBDA r : r.identity_line_item_id \notin ExistingIds(raw))

\* raw_cur after load_cur_parquet(db, file)
load_cur_parquet(raw, file) ==
    raw \o [i \in 1..Len(NewRows(raw, file)) |-> StoredRow(NewRows(raw, file)[i])]

\* a file with one priced compute line item per day
RawCompute == [d \in 1..MaxDate |-> RawRow(d, d, "AmazonEC2", 1000 * d + 5)]

\* a file with an unpriced storage line item per day
RawStorage == [d \in 1..MaxDate |-> RawRow(MaxDate + d, d, "AmazonS3", NoneCost)]

\* an unpriced compute line item on the first day
RawUnpriced == <<RawRow(2 * MaxDate + 1, 1, "AmazonEC2", NoneCost)>>

\* raw_cur after loading the compute file, or that and a file of unpriced items
RawTables ==
    {load_cur_parquet(<<>>, RawCompute),
     load_cur_parquet(load_cur_parquet(<<>>, RawCompute), RawStorage \o RawUnpriced)}

ServiceKeyOf(svc, product, usage) ==
    {svc[i].service_key : i \in {j \in 1..Len(svc) :
        svc[j].product_code = product /\ svc[j].usage_type = usage}}

\* position of the dim_service row of a (product_code, usage_type), 0 if none
ServiceAt(svc, product, usage) ==
    LET I == {j \in 1..Len(svc) :
                 svc[j].product_code = product /\ svc[j].usage_type = usage}
    IN  IF I = {} THEN 0 ELSE CHOOSE j \in I : TRUE

RECURSIVE MergeFrom(_, _, _)
\* merge_dim_service.sql: one dim_service row per distinct
\* (product_code, usage_type) of raw_cur; an existing row keeps its key and
\* takes the latest usage date seen as its last_seen_date
MergeFrom(svc, raw, i) ==
    IF i > Len(raw) THEN svc
    ELSE LET j == ServiceAt(svc, raw[i].line_item_product_code,
                            raw[i].line_item_usage_type)
             d == raw[i].line_item_usage_start_date
         IN  IF j /= 0
             THEN MergeFrom([svc EXCEPT ![j].last_seen_date = IF d > @ THEN d ELSE @],
                            raw, i + 1)
             ELSE MergeFrom(Append(svc, [service_key     |-> Len(svc) + 1,
                                         product_code    |-> raw[i].line_item_product_code,
                                         usage_type      |-> raw[i].line_item_usage_type,
                                         first_seen_date |-> d,
                                         last_seen_date  |-> d]),
                            raw, i + 1)

MergeDimService(svc, raw) == MergeFrom(svc, raw, 1)

\* raw_cur JOIN dim_service ... WHERE usage date = d AND service_key = sk
GrainItems(raw, svc, d, sk) ==
    {i \in 1..Len(raw) :
        /\ raw[i].line_item_usage_start_date = d
        /\ sk \in ServiceKeyOf(svc, raw[i].line_item_product_code,
                               raw[i].line_item_usage_type)}

RECURSIVE SumCost(_, _)
\* SUM(COALESCE(line_item_unblended_cost, 0)) over the line items I
SumCost(raw, I) ==
    IF I = {} THEN 0
    ELSE LET i == CHOOSE j \in I : TRUE
             c == raw[i].line_item_unblended_cost
         IN  (IF c = NullCost THEN 0 ELSE c) + SumCost(raw, I \ {i})

\* ROUND(total / n, 2): total in mills, the result in cents, halves go up
RoundCents(total, n) == (2 * total + 10 * n) \div (20 * n)

\* the temporal join condition: the row is valid on date d, effective_from <= d < effective_to, the
\* interval being open to the right when effective_to is NULL
ValidOn(r, d) ==
    /\ r.effective_from <= d
    /\ (r.effective_to = NullDate \/ d < r.effective_to)

\* the dim_customer rows of the temporal join for usage date d
ActiveVersions(dim, d) == {r \in Range(dim) : ValidOn(r, d)}

\* slip: the SELECT list also takes the e-mail token of the version row
FactRow_CarriesToken(dim, raw, svc, d, sk, r) ==
    [usage_date      |-> d,
     customer_key    |-> r.customer_key,
     service_key     |-> sk,
     email_token     |-> r.email_token,
     allocated_cost  |-> RoundCents(SumCost(raw, GrainItems(raw, svc, d, sk)),
                            Cardinality({a.customer_id : a \in ActiveVersions(dim, d)})),
     record_count    |-> Cardinality(GrainItems(raw, svc, d, sk)),
     null_cost_count |-> Cardinality({i \in GrainItems(raw, svc, d, sk) :
                             raw[i].line_item_unblended_cost = NullCost})]

\* one output row of the SELECT: the cost of grain (d, sk) split equally
\* among the distinct customers active on d, for the version row r
FactRow(dim, raw, svc, d, sk, r) ==
    [usage_date      |-> d,
     customer_key    |-> r.customer_key,
     service_key     |-> sk,
     allocated_cost  |-> RoundCents(SumCost(raw, GrainItems(raw, svc, d, sk)),
                            Cardinality({a.customer_id : a \in ActiveVersions(dim, d)})),
     record_count    |-> Cardinality(GrainItems(raw, svc, d, sk)),
     null_cost_count |-> Cardinality({i \in GrainItems(raw, svc, d, sk) :
                             raw[i].line_item_unblended_cost = NullCost})]

\* the rows the SELECT of load_fact_customer_cost.sql yields
FactRows(dim, raw, svc) ==
    LET grains == {g \in Dates \X {svc[i].service_key : i \in 1..Len(svc)} :
                      GrainItems(raw, svc, g[1], g[2]) /= {}}
    IN  UNION {{FactRow(dim, raw, svc, g[1], g[2], r) : r \in ActiveVersions(dim, g[1])}
                : g \in grains}

SameGrain(f, g) ==
    /\ f.usage_date = g.usage_date
    /\ f.customer_key = g.customer_key
    /\ f.service_key = g.service_key

\* slip: on conflict the new cost is added to the stored cost
Upsert_Accumulates(fact, rows) ==
    {f \in fact : ~\E g \in rows : SameGrain(f, g)} \cup
    {[g EXCEPT !.allocated_cost =
          @ + (IF \E f \in fact : SameGrain(f, g)
               THEN (CHOOSE f \in fact : SameGrain(f, g)).allocated_cost ELSE 0)]
        : g \in rows}

\* INSERT ... ON CONFLICT (usage_date, customer_key, service_key) DO UPDATE
Upsert(fact, rows) ==
    {f \in fact : ~\E g \in rows : SameGrain(f, g)} \cup rows

\* the pipeline up to the dimensions: load_cur_parquet, then load_dim_service
InitFact ==
    /\ dim_customer = <<>>
    /\ pc = "idle"
    /\ snapshot = <<>>
    /\ snapshot_date = 1
    /\ current_map = <<>>
    /\ next_key = 1
    /\ idx = 1
    /\ ret = 0
    /\ dim_before = <<>>
    /\ last_date = 1
    /\ repeated = FALSE
    /\ raw_cur \in RawTables
    /\ dim_service = MergeDimService(<<>>, raw_cur)
    /\ fact_customer_cost = {}
    /\ fact_current = FALSE
    /\ fact_runs = 0
    /\ fact_ret = 0
    /\ cur_file = <<>>
    /\ cur_ret = 0
    /\ raw_cur_created = TRUE
    /\ cur_raised = "none"
    /\ cur_probe = [exists |-> TRUE, columns |-> CUR_EXPECTED_COLUMNS]
    /\ service_runs = 1
    /\ service_ret = Len(dim_service)
    /\ raced = FALSE

\* the latest date a load has written to the dimension
LatestDate(dim) ==
    Max({1} \cup {r.effective_from : r \in Range(dim)}
            \cup {r.effective_to : r \in Range(dim)})

\* the batches whose every row makes the loop write: a row that is
\* unchanged against cmap executes no statement, so a batch with such rows
\* leaves the table as the batch without them does
WritingBatches(cmap, room) ==
    {b \in PlainBatches :
        /\ Len(b) <= room
        /\ \A i \in 1..Len(b) : Transition(cmap, b[i]) /= "unchanged"}

\* one whole call of load_dim_customer; the pipeline loads its snapshots in
\* the order of their dates: no snapshot is dated before a date that an
\* earlier load wrote to the dimension
LoadDimCustomer ==
    /\ pc = "idle"
    /\ LET room == MaxKey + 1 - NextKey(dim_customer)
           late == LatestDate(dim_customer)
       IN  \E cmap \in CurrentMaps(dim_customer) :
           \E snap \in WritingBatches(cmap, room) :
           \E date \in {d \in Dates : d >= late} :
               dim_customer' = load_dim_customer(dim_customer, snap, date, cmap)
    /\ ret' = Len(dim_customer')
    /\ fact_current' = (fact_current /\ dim_customer' = dim_customer)
    /\ fact_runs' = IF dim_customer' = dim_customer THEN fact_runs ELSE 0
    /\ UNCHANGED <<pc, snapshot, snapshot_date, current_map, next_key, idx,
                   dim_before, last_date, repeated, raw_cur, dim_service,
                   fact_customer_cost, fact_ret, cur_file, cur_ret,
                   raw_cur_created, cur_raised, cur_probe, service_runs,
                   service_ret, raced>>

\* load_fact_customer_cost: DDL, then the attribution DML, then the row count
LoadFact ==
    /\ pc = "idle"
    /\ fact_customer_cost' =
         Upsert(fact_customer_cost, FactRows(dim_customer, raw_cur, dim_service))
    /\ fact_ret' = Cardinality(fact_customer_cost')
    /\ fact_current' = TRUE
    /\ fact_runs' = IF fact_runs < 2 THEN fact_runs + 1 ELSE 2
    /\ UNCHANGED <<dimVars, raw_cur, dim_service, cur_file, cur_ret,
                   raw_cur_created, cur_raised, cur_probe, service_runs,
                   service_ret, raced>>

NextFact ==
    \/ LoadDimCustomer
    \/ LoadFact

SpecFact == InitFact /\ [][NextFact]_vars

\* the line items a file may hold, all on the first day: id 1 priced or
\* not, id 2 priced
CurFileRows ==
    {RawRow(1, 1, "AmazonEC2", 1005), RawRow(1, 1, "AmazonEC2", NoneCost),
     RawRow(2, 1, "AmazonEC2", 1005)}

\* the column sets a Parquet file may have: none, the CUR columns, the CUR
\* columns and one more, the CUR columns but one, one CUR column and another
FileColumns ==
    {{}, CUR_EXPECTED_COLUMNS, CUR_EXPECTED_COLUMNS \cup {"bogus_col"},
     CUR_EXPECTED_COLUMNS \ {"line_item_product_code"},
     {"identity_line_item_id", "bogus_col"}}

\* the files of at most MaxBatch such line items
CurFiles == Batches(CurFileRows)

\* load_cur_parquet(db, file) for a file that exists and passes
\* validate_cur_schema: CREATE TABLE IF NOT EXISTS, the filter on
\* existing_ids, one INSERT per new row
LoadCurFile(files, columnSets) ==
    /\ pc = "idle"
    /\ \E columns \in {c \in columnSets : validate_cur_schema(c) = <<>>} :
        cur_probe' = [exists |-> TRUE, columns |-> columns]
    /\ \E file \in files :
        /\ raw_cur' = load_cur_parquet(raw_cur, file)
        /\ cur_ret' = Len(NewRows(raw_cur, file))
        /\ cur_file' = file
    /\ raw_cur_created' = TRUE
    /\ cur_raised' = "none"
    /\ service_runs' = IF raw_cur' = raw_cur THEN service_runs ELSE 0
    /\ UNCHANGED <<dimVars, dim_service, fact_customer_cost, fact_current,
                   fact_runs, fact_ret, service_ret, raced>>

\* a load of any file of at most MaxBatch line items with the CUR columns
LoadCur == LoadCurFile(CurFiles, {CUR_EXPECTED_COLUMNS})

\* a load of one of the export files, with any columns
LoadCurExport == LoadCurFile({RawCompute, RawStorage, RawUnpriced}, FileColumns)

\* load_cur_parquet(db, path) when parquet_path.exists() is false
LoadCurMissing ==
    /\ pc = "idle"
    /\ cur_probe' = [exists |-> FALSE, columns |-> {}]
    /\ cur_raised' = "FileNotFoundError"
    /\ UNCHANGED <<dimVars, raw_cur, dim_service, fact_customer_cost,
                   fact_current, fact_runs, fact_ret, cur_file, cur_ret,
                   raw_cur_created, service_runs, service_ret,
                   raced>>

\* load_cur_parquet(db, file) when validate_cur_schema returns errors
LoadCurInvalid ==
    /\ pc = "idle"
    /\ \E columns \in {c \in FileColumns : validate_cur_schema(c) /= <<>>} :
        cur_probe' = [exists |-> TRUE, columns |-> columns]
    /\ cur_raised' = "ValueError"
    /\ UNCHANGED <<dimVars, raw_cur, dim_service, fact_customer_cost,
                   fact_current, fact_runs, fact_ret, cur_file, cur_ret,
                   raw_cur_created, service_runs, service_ret,
                   raced>>

\* any sequence of load_cur_parquet calls on any path
NextCurFile ==
    \/ LoadCurExport
    \/ LoadCurMissing
    \/ LoadCurInvalid

SpecCurFile == Init /\ [][NextCurFile]_vars

\* any sequence of load_cur_parquet calls on files that load
NextCur == LoadCur

SpecCur == Init /\ [][NextCur]_vars

\* slip: the DML is a plain INSERT ... SELECT DISTINCT without ON CONFLICT
LoadDimService_PlainInsert ==
    /\ pc = "idle"
    /\ dim_service' = dim_service \o MergeDimService(<<>>, raw_cur)
    /\ service_ret' = Len(dim_service')
    /\ service_runs' = IF service_runs < 2 THEN service_runs + 1 ELSE 2
    /\ UNCHANGED <<dimVars, raw_cur, fact_customer_cost, fact_current,
                   fact_runs, fact_ret, cur_file, cur_ret, raw_cur_created,
                   cur_raised, cur_probe, raced>>

\* load_dim_service: DDL, then the merge from raw_cur, then the row count
LoadDimService ==
    /\ pc = "idle"
    /\ dim_service' = MergeDimService(dim_service, raw_cur)
    /\ service_ret' = Len(dim_service')
    /\ service_runs' = IF service_runs < 2 THEN service_runs + 1 ELSE 2
    /\ UNCHANGED <<dimVars, raw_cur, fact_customer_cost, fact_current,
                   fact_runs, fact_ret, cur_file, cur_ret, raw_cur_created,
                   cur_raised, cur_probe, raced>>

\* export files arrive and load_dim_service runs, in any order
NextService ==
    \/ LoadCurExport
    \/ LoadDimService

SpecService == Init /\ [][NextService]_vars

\* the pipeline with a late file: load_cur_parquet, load_dim_service, then
\* load_cur_parquet of a file with line items of a service not seen before
InitOrphan ==
    /\ dim_customer = <<>>
    /\ pc = "idle"
    /\ snapshot = <<>>
    /\ snapshot_date = 1
    /\ current_map = <<>>
    /\ next_key = 1
    /\ idx = 1
    /\ ret = 0
    /\ dim_before = <<>>
    /\ last_date = 1
    /\ repeated = FALSE
    /\ raw_cur = load_cur_parquet(load_cur_parquet(<<>>, RawCompute), RawStorage)
    /\ dim_service = MergeDimService(<<>>, load_cur_parquet(<<>>, RawCompute))
    /\ fact_customer_cost = {}
    /\ fact_current = FALSE
    /\ fact_runs = 0
    /\ fact_ret = 0
    /\ cur_file = RawStorage
    /\ cur_ret = Len(RawStorage)
    /\ raw_cur_created = TRUE
    /\ cur_raised = "none"
    /\ cur_probe = [exists |-> TRUE, columns |-> CUR_EXPECTED_COLUMNS]
    /\ service_runs = 0
    /\ service_ret = Len(dim_service)
    /\ raced = FALSE

SpecOrphan == InitOrphan /\ [][NextFact]_vars

\* what a load_fact_customer_cost run surfaces: the row count it returns
FactRunSummary == [rows |-> fact_ret]

\* ---------------------------------------------------- dimension history
CustomerRows(dim, cid) == {r \in Range(dim) : r.customer_id = cid}

KnownCustomers(dim) == {r.customer_id : r \in Range(dim)}

\* r comes before q when the versions are sorted by effective_from (rows that
\* start on the same date are taken in the order of their surrogate keys)
Before(r, q) ==
    \/ r.effective_from < q.effective_from
    \/ (r.effective_from = q.effective_from /\ r.customer_key < q.customer_key)

IsNextVersion(R, r, q) ==
    /\ q \in R /\ Before(r, q)
    /\ \A z \in R : Before(r, z) => (z = q \/ Before(q, z))

HistoryWellFormed(dim, cid) ==
    LET R == CustomerRows(dim, cid)
    IN  /\ \A r, q \in R : r /= q => ~\E d \in Dates : ValidOn(r, d) /\ ValidOn(q, d)
        /\ \A r \in R : r.effective_to /= NullDate =>
              \E q \in R : IsNextVersion(R, r, q) /\ q.effective_from = r.effective_to
        /\ Cardinality({r \in R : r.effective_to = NullDate}) = 1

\* C1: after any sequence of calls with non-decreasing snapshot dates, the
\* validity intervals of every customer are pairwise non-overlapping,
\* contiguous (an expired row ends where the next version starts) and exactly
\* one of them is open.
C1_NoOverlapContiguous ==
    pc = "idle" =>
        \A cid \in KnownCustomers(dim_customer) : HistoryWellFormed(dim_customer, cid)

\* C2: after every completed call each customer_id in dim_customer has
\* exactly one row with is_current = TRUE, whatever rows the batches held.
C2_OneCurrentPerCustomer ==
    pc = "idle" =>
        \A cid \in KnownCustomers(dim_customer) :
            Cardinality({r \in CustomerRows(dim_customer, cid) : r.is_current}) = 1

\* C3: in every reachable state, between any two statements of a call too,
\* a row has is_current = TRUE if and only if its effective_to is NULL.
C3_CurrentIffOpen ==
    \A i \in 1..Len(dim_customer) :
        dim_customer[i].is_current <=> (dim_customer[i].effective_to = NullDate)

\* the call stands between the UPDATE that expired a row and its INSERT
C3_Witness ==
    /\ pc = "insert"
    /\ \E i \in 1..Len(dim_customer) :
        ~dim_customer[i].is_current /\ dim_customer[i].effective_to = snapshot_date

\* C4: a second call with the same snapshot and the same snapshot_date
\* leaves dim_customer exactly as the first call left it.
C4_Idempotent ==
    (LoopDone /\ repeated) => dim_customer = dim_before

KeysOf(dim) == {dim[i].customer_key : i \in 1..Len(dim)}

\* C5: every newly assigned customer_key is greater than every key assigned
\* before it, and no two rows ever share a customer_key.
C5_KeysStrictlyIncrease ==
    /\ [](Cardinality(KeysOf(dim_customer)) = Len(dim_customer))
    /\ [][\A i \in (Len(dim_customer) + 1)..Len(dim_customer') :
            \A k \in KeysOf(dim_customer) : dim_customer'[i].customer_key > k]_vars

\* a second call has assigned a key after the keys of an earlier call
C5_Witness ==
    /\ dim_before /= <<>>
    /\ Len(dim_customer) > Len(dim_before)

C7_ChangeExpiresOneInsertsOne ==
    [][/\ (/\ pc = "loop" /\ idx <= Len(snapshot)
           /\ snapshot[idx].customer_id \in DOMAIN current_map
           /\ current_map[snapshot[idx].customer_id] /= snapshot[idx].segment)
          => /\ pc' = "insert"
             /\ Len(dim_customer') = Len(dim_customer)
             /\ Cardinality({i \in 1..Len(dim_customer) :
                                dim_customer'[i] /= dim_customer[i]}) = 1
             /\ \A i \in 1..Len(dim_customer) :
                    dim_customer'[i] /= dim_customer[i] =>
                        /\ dim_customer[i].is_current
                        /\ dim_customer[i].customer_id = snapshot[idx].customer_id
                        /\ dim_customer'[i] =
                             [dim_customer[i] EXCEPT !.effective_to = snapshot_date,
                                                     !.is_current = FALSE]
       /\ pc = "insert"
          => /\ Len(dim_customer') = Len(dim_customer) + 1
             /\ SubSeq(dim_customer', 1, Len(dim_customer)) = dim_customer
             /\ LET n == dim_customer'[Len(dim_customer')]
                IN  /\ n.customer_key \notin KeysOf(dim_customer)
                    /\ n.customer_id = snapshot[idx].customer_id
                    /\ n.segment = snapshot[idx].segment
                    /\ n.effective_from = snapshot_date
                    /\ n.effective_to = NullDate
                    /\ n.is_current]_vars

\* C8: a row whose customer_id has no current version in dim_customer (as
\* read at the start of the call) inserts exactly one row (fresh key,
\* effective_from = snapshot_date, effective_to NULL, is_current TRUE) and
\* touches no other row.
C8_NewInsertsOne ==
    [][(/\ pc = "loop" /\ idx <= Len(snapshot)
        /\ snapshot[idx].customer_id \notin DOMAIN current_map)
       => /\ Len(dim_customer') = Len(dim_customer) + 1
          /\ SubSeq(dim_customer', 1, Len(dim_customer)) = dim_customer
          /\ LET n == dim_customer'[Len(dim_customer')]
             IN  /\ n.customer_key \notin KeysOf(dim_customer)
                 /\ \A k \in KeysOf(dim_customer) : n.customer_key > k
                 /\ n.customer_id = snapshot[idx].customer_id
                 /\ n.segment = snapshot[idx].segment
                 /\ n.effective_from = snapshot_date
                 /\ n.effective_to = NullDate
                 /\ n.is_current]_vars

\* a first-seen customer has been inserted next to the rows of another one
C8_Witness ==
    /\ pc = "loop" /\ idx = 2
    /\ dim_before /= <<>>
    /\ Len(dim_customer) = Len(dim_before) + 1
    /\ snapshot[1].customer_id \notin KnownCustomers(dim_before)
    /\ dim_customer[Len(dim_customer)].customer_id = snapshot[1].customer_id

\* ------------------------------------------------------ attribution claims
\* customer E has one version change, effective on p.effective_to: the prior
\* version p was expired on the date from which the new version n is valid
VersionChange(dim, E, p, n) ==
    /\ CustomerRows(dim, E) = {p, n} /\ p /= n
    /\ p.effective_to /= NullDate
    /\ n.effective_from = p.effective_to
    /\ n.effective_to = NullDate

\* C9: when customer E has a version change effective on date D, after
\* load_fact_customer_cost every fact row of E dated before D carries the
\* prior customer_key, every fact row of E dated D or later carries the new
\* customer_key, and E has no (usage_date, service_key) under both keys.
C9_TemporalAttribution ==
    fact_current =>
        \A E \in CustomerIds : \A p, n \in CustomerRows(dim_customer, E) :
            VersionChange(dim_customer, E, p, n) =>
                /\ \A f \in fact_customer_cost :
                    f.customer_key \in {p.customer_key, n.customer_key} =>
                        /\ f.usage_date < p.effective_to => f.customer_key = p.customer_key
                        /\ f.usage_date >= p.effective_to => f.customer_key = n.customer_key
                /\ ~\E f, g \in fact_customer_cost :
                    /\ f.usage_date = g.usage_date /\ f.service_key = g.service_key
                    /\ f.customer_key = p.customer_key /\ g.customer_key = n.customer_key

\* C10: an attribution run after dim_customer gained new history leaves
\* fact_customer_cost equal to what a run into an empty fact table over the
\* same inputs produces; no row of an earlier run survives for a grain the
\* current history no longer yields.
C10_FullRecomputation ==
    fact_current =>
        fact_customer_cost = FactRows(dim_customer, raw_cur, dim_service)

\* C11: with raw_cur, dim_service and dim_customer unchanged, a second
\* load_fact_customer_cost run leaves fact_customer_cost with the same rows
\* and the same allocated_cost values as the first run left.
C11_AttributionIdempotent ==
    [][(fact_runs >= 1 /\ fact_runs' > fact_runs)
       => fact_customer_cost' = fact_customer_cost]_vars

\* two attribution runs in a row over a dimension with history wrote rows
C11_Witness ==
    /\ fact_runs = 2
    /\ fact_customer_cost /= {}
    /\ \E r \in Range(dim_customer) : ~r.is_current

\* the (usage_date, service_key) pairs
Grains == Dates \X {dim_service[i].service_key : i \in 1..Len(dim_service)}

\* the fact rows of a (usage_date, service_key) pair
GrainRows(d, sk) ==
    {f \in fact_customer_cost : f.usage_date = d /\ f.service_key = sk}

RECURSIVE SumAllocated(_)
\* SUM(allocated_cost) over a set of fact rows, in cents
SumAllocated(F) ==
    IF F = {} THEN 0
    ELSE LET f == CHOOSE g \in F : TRUE
         IN  f.allocated_cost + SumAllocated(F \ {f})

\* the customer_ids with a version row valid on date d
ActiveCustomers(d) == {a.customer_id : a \in ActiveVersions(dim_customer, d)}

\* the customer_ids a customer_key maps back to through dim_customer
CustomerOfKey(k) == {r.customer_id : r \in {q \in Range(dim_customer) : q.customer_key = k}}

Abs(x) == IF x < 0 THEN -x ELSE x

\* C12: for every (usage_date, service_key) with fact rows, the sum of
\* allocated_cost over all customer_keys equals the total raw cost of the pair
\* (NULL counted as 0) within 0.01 per customer active on that date.
C12_Conservation ==
    fact_current =>
        \A g \in Grains :
            GrainRows(g[1], g[2]) /= {} =>
                Abs(10 * SumAllocated(GrainRows(g[1], g[2]))
                    - SumCost(raw_cur, GrainItems(raw_cur, dim_service, g[1], g[2])))
                  <= 10 * Cardinality(ActiveCustomers(g[1]))

\* C13: for every usage_date and service with cost, the fact rows cover
\* exactly the customers with a version row valid on that date, one row per
\* customer_id, each with the total cost of the pair divided by the number of
\* those customers; no customer has a fact row dated before its first
\* effective_from.
C13_EqualSplit ==
    fact_current =>
        \A g \in Grains :
            GrainItems(raw_cur, dim_service, g[1], g[2]) /= {} =>
                LET rows == GrainRows(g[1], g[2])
                    total == SumCost(raw_cur, GrainItems(raw_cur, dim_service, g[1], g[2]))
                IN  /\ UNION {CustomerOfKey(f.customer_key) : f \in rows} = ActiveCustomers(g[1])
                    /\ Cardinality(rows) = Cardinality(ActiveCustomers(g[1]))
                    /\ \A f \in rows :
                        /\ f.allocated_cost =
                             RoundCents(total, Cardinality(ActiveCustomers(g[1])))
                        /\ \E r \in Range(dim_customer) :
                            /\ r.customer_id \in CustomerOfKey(f.customer_key)
                            /\ r.effective_from <= g[1]

\* C14: after any sequence of loader runs fact_customer_cost has at most one
\* row per (usage_date, customer_key, service_key) and, mapping customer_key
\* back through dim_customer, at most one per (usage_date, customer_id,
\* service_key).
C14_OneRowPerGrain ==
    \A f, g \in fact_customer_cost :
        /\ SameGrain(f, g) => f = g
        /\ (/\ f.usage_date = g.usage_date
            /\ f.service_key = g.service_key
            /\ CustomerOfKey(f.customer_key) \cap CustomerOfKey(g.customer_key) /= {})
           => f = g

\* the columns of fact_customer_cost
FactFields ==
    {"usage_date", "customer_key", "service_key", "allocated_cost",
     "record_count", "null_cost_count"}

\* the dimension with the same version rows (customer_key, customer_id,
\* validity interval) and other masked and passthrough attributes
WithAttributes(dim, token, name) ==
    [i \in 1..Len(dim) |-> [dim[i] EXCEPT !.email_token = token, !.first_name = name]]

\* C15: fact rows refer to the customer through customer_key only: no fact
\* row has a customer_id, email, phone or name field, and a run over a
\* dimension with the same version rows but other masked or passthrough
\* attributes writes the same fact rows.
C15_NoCustomerAttributesInFacts ==
    [][fact_runs' > fact_runs =>
        /\ \A f \in fact_customer_cost' : DOMAIN f = FactFields
        /\ \A token \in {mask_email(e) : e \in Emails}, name \in FirstNames :
              fact_customer_cost' =
                  Upsert(fact_customer_cost,
                         FactRows(WithAttributes(dim_customer, token, name),
                                  raw_cur, dim_service))]_vars

\* a run has written rows for customers that differ in e-mail token and name
C15_Witness ==
    /\ fact_runs >= 1
    /\ \E f, g \in fact_customer_cost : \E r, q \in Range(dim_customer) :
        /\ f.customer_key = r.customer_key /\ g.customer_key = q.customer_key
        /\ r.email_token /= q.email_token
        /\ r.first_name /= q.first_name

\* C16: a snapshot row with a missing customer_id is skipped without
\* aborting the call: nothing is written for it and the loop goes on to the
\* next row of the batch.
C16_NullIdSkipped ==
    [][(/\ pc = "loop" /\ idx <= Len(snapshot)
        /\ snapshot[idx].customer_id = NullId)
       => /\ dim_customer' = dim_customer
          /\ pc' = "loop"
          /\ snapshot' = snapshot
          /\ idx' = idx + 1]_vars

\* the dates of the cost events in raw_cur
EventDates == {raw_cur[i].line_item_usage_start_date : i \in 1..Len(raw_cur)}

\* some customer has more than one version row valid on date d
Ambiguous(d) ==
    \E r, q \in ActiveVersions(dim_customer, d) :
        r /= q /\ r.customer_id = q.customer_id

\* C17: when a customer and an event date resolve to more than one valid
\* version row, load_fact_customer_cost aborts: the run writes no fact row.
C17_AmbiguousVersionAborts ==
    [][((\E d \in EventDates : Ambiguous(d)) /\ fact_runs' > fact_runs)
       => fact_customer_cost' = fact_customer_cost]_vars

\* the raw cost events whose (product_code, usage_type) has no dim_service row
Orphans ==
    {i \in 1..Len(raw_cur) :
        ServiceKeyOf(dim_service, raw_cur[i].line_item_product_code,
                     raw_cur[i].line_item_usage_type) = {}}

\* C18: a cost event without a matching dimension row is excluded from
\* fact_customer_cost, the run completes, and its summary reports the number
\* of excluded events.
C18_OrphansExcludedAndCounted ==
    fact_runs >= 1 =>
        /\ \A f \in fact_customer_cost :
              f.record_count =
                  Cardinality(GrainItems(raw_cur, dim_service, f.usage_date, f.service_key)
                              \ Orphans)
        /\ "excluded" \in DOMAIN FactRunSummary
        /\ FactRunSummary.excluded = Cardinality(Orphans)

\* the identity_line_item_ids of the file rows without a cost
UnpricedIds ==
    {r.identity_line_item_id :
        r \in {q \in Range(RawCompute \o RawStorage \o RawUnpriced) :
                  q.line_item_unblended_cost = NoneCost}}

Fresh(raw, file) ==
    {i \in 1..Len(file) : \A j \in 1..Len(raw) :
        raw[j].identity_line_item_id /= file[i].identity_line_item_id}

\* C20: load_cur_parquet inserts exactly the rows of the file whose
\* identity_line_item_id is not yet in raw_cur and returns their number;
\* loading the file that was loaded last once more inserts nothing, returns
\* 0 and leaves raw_cur unchanged.
C20_CurLoadIdempotent ==
    [][/\ Len(raw_cur') = Len(raw_cur) + Cardinality(Fresh(raw_cur, cur_file'))
       /\ SubSeq(raw_cur', 1, Len(raw_cur)) = raw_cur
       /\ cur_ret' = Cardinality(Fresh(raw_cur, cur_file'))
       /\ \A id \in {1, 2} :
            Cardinality({j \in (Len(raw_cur) + 1)..Len(raw_cur') :
                            raw_cur'[j].identity_line_item_id = id})
              = Cardinality({i \in Fresh(raw_cur, cur_file') :
                                cur_file'[i].identity_line_item_id = id})
       /\ cur_file' = cur_file => (raw_cur' = raw_cur /\ cur_ret' = 0)]_vars

\* a file has been loaded whose rows were all in raw_cur already
C20_Witness ==
    /\ cur_file /= <<>>
    /\ cur_ret = 0
    /\ \A i \in 1..Len(cur_file) :
          cur_file[i].identity_line_item_id \in ExistingIds(raw_cur)

\* C21: a load_cur_parquet call on a path that does not exist raises
\* FileNotFoundError, a call on a file without columns or without one of the
\* CUR columns raises ValueError, and neither call creates or changes raw_cur.
C21_FailsBeforeDatabase ==
    [][/\ ~cur_probe'.exists
          => /\ cur_raised' = "FileNotFoundError"
             /\ raw_cur' = raw_cur /\ raw_cur_created' = raw_cur_created
       /\ (cur_probe'.exists /\ ~(CUR_EXPECTED_COLUMNS \subseteq cur_probe'.columns))
          => /\ cur_raised' = "ValueError"
             /\ raw_cur' = raw_cur /\ raw_cur_created' = raw_cur_created
       /\ cur_raised' \in {"FileNotFoundError", "ValueError"}
          => (raw_cur' = raw_cur /\ raw_cur_created' = raw_cur_created)]_vars

\* a file that lacks a CUR column was refused before raw_cur was ever created
C21_Witness ==
    /\ cur_raised = "ValueError"
    /\ cur_probe.columns = CUR_EXPECTED_COLUMNS \ {"line_item_product_code"}
    /\ ~raw_cur_created

\* the (product_code, usage_type) pairs of a table
ServicesSeen(raw) ==
    {<<raw[i].line_item_product_code, raw[i].line_item_usage_type>> : i \in 1..Len(raw)}

ServicesKnown(svc) ==
    {<<svc[i].product_code, svc[i].usage_type>> : i \in 1..Len(svc)}

\* C22: dim_service never holds two rows with the same service_key or the
\* same (product_code, usage_type); after a load_dim_service run it holds
\* exactly the pairs seen in raw_cur; and a run leaves every existing row as
\* it was but for its last_seen_date and adds rows only for pairs that had
\* no row.
C22_ServiceTypeOne ==
    /\ [](/\ Cardinality({dim_service[i].service_key : i \in 1..Len(dim_service)})
              = Len(dim_service)
          /\ Cardinality(ServicesKnown(dim_service)) = Len(dim_service)
          /\ service_runs >= 1 => ServicesKnown(dim_service) = ServicesSeen(raw_cur))
    /\ [][/\ Len(dim_service') >= Len(dim_service)
          /\ \A i \in 1..Len(dim_service) :
                 dim_service'[i] =
                     [dim_service[i] EXCEPT !.last_seen_date = dim_service'[i].last_seen_date]
          /\ \A i \in (Len(dim_service) + 1)..Len(dim_service') :
                 <<dim_service'[i].product_code, dim_service'[i].usage_type>>
                     \notin ServicesKnown(dim_service)]_vars

\* load_dim_service has run again over services it had seen: both services
\* are known and one was re-observed at a later date
C22_Witness ==
    /\ service_runs = 2
    /\ Len(dim_service) = 2
    /\ \E i \in 1..Len(dim_service) :
          dim_service[i].last_seen_date > dim_service[i].first_seen_date

\* C23: in no reachable state, the state an aborted call leaves behind
\* included, is a customer that had a current row left without one.
C23_ChangedAtomic ==
    \A cid \in KnownCustomers(dim_customer) :
        \E r \in CustomerRows(dim_customer, cid) : r.is_current

\* the current rows of a customer
CurrentOf(dim, cid) == {r \in CurrentRows(dim) : r.customer_id = cid}

\* the run is about to write the expiry of a customer whose current version
\* is no longer the one the run read at its start, by no write of its own
StaleExpiry ==
    /\ pc = "loop" /\ idx <= Len(snapshot)
    /\ Transition(current_map, snapshot[idx]) = "changed"
    /\ \A j \in 1..(idx - 1) : snapshot[j].customer_id /= snapshot[idx].customer_id
    /\ CurrentOf(dim_customer, snapshot[idx].customer_id)
         /= CurrentOf(dim_before, snapshot[idx].customer_id)

\* C24: a run that finds, when it is about to expire a customer's current
\* version, that the version is not the one it read at its start writes
\* nothing and ends (a fault the caller retries).
C24_OptimisticExpiry ==
    [][(StaleExpiry /\ pc' /= pc) => (dim_customer' = dim_customer /\ pc' = "idle")]_vars

\* C25: as long as no run has interleaved with another, no two rows share a
\* customer_key; interleaved runs can give one key to two rows.
C25_KeysUniqueWhenSerial ==
    ~raced => Cardinality(KeysOf(dim_customer)) = Len(dim_customer)

\* two interleaved runs read the same MAX(customer_key), and each inserted a
\* current row for the same new customer under the same customer_key
C25_Witness ==
    /\ raced
    /\ \E i, j \in 1..Len(dim_customer) :
        /\ i /= j
        /\ dim_customer[i].customer_key = dim_customer[j].customer_key
        /\ dim_customer[i].customer_id = dim_customer[j].customer_id
        /\ dim_customer[i].is_current /\ dim_customer[j].is_current

\* a batch with its rows in the order p
Permute(snap, p) == [i \in 1..Len(snap) |-> snap[p[i]]]

\* a dimension row without its surrogate key
Keyless(r) ==
    [customer_id |-> r.customer_id, segment |-> r.segment,
     email_token |-> r.email_token, first_name |-> r.first_name,
     effective_from |-> r.effective_from, effective_to |-> r.effective_to,
     is_current |-> r.is_current]

\* two dimension states hold the same rows but for their surrogate keys
SameUpToKeys(a, b) ==
    /\ Len(a) = Len(b)
    /\ \A q \in {Keyless(a[i]) : i \in 1..Len(a)} \cup {Keyless(b[i]) : i \in 1..Len(b)} :
          Cardinality({i \in 1..Len(a) : Keyless(a[i]) = q})
              = Cardinality({i \in 1..Len(b) : Keyless(b[i]) = q})

\* C26: whatever the order of the rows of a batch, a call leaves the same
\* dimension rows, but for which surrogate key each new row received.
C26_RowOrderIrrelevant ==
    LoopDone =>
        \A p \in Permutations(1..Len(snapshot)) :
            SameUpToKeys(dim_customer,
                         load_dim_customer(dim_before, Permute(snapshot, p),
                                           snapshot_date, current_map))

\* C27: no step deletes a dim_customer row, and a step changes an existing
\* row only by expiring it: the row was current with a NULL effective_to, it
\* belongs to the customer of the snapshot row being processed, and only its
\* effective_to (to snapshot_date) and is_current (to FALSE) change.
C27_RowsOnlyExpire ==
    [][/\ Len(dim_customer') >= Len(dim_customer)
       /\ \A i \in 1..Len(dim_customer) :
            \/ dim_customer'[i] = dim_customer[i]
            \/ /\ pc = "loop" /\ idx <= Len(snapshot)
               /\ dim_customer[i].customer_id = snapshot[idx].customer_id
               /\ dim_customer[i].is_current
               /\ dim_customer[i].effective_to = NullDate
               /\ snapshot_date /= NullDate
               /\ dim_customer'[i] =
                    [dim_customer[i] EXCEPT !.effective_to = snapshot_date,
                                            !.is_current = FALSE]]_vars

\* a customer has gone through two changes next to nothing else: its first
\* version was expired by the first and met again by the second
C27_Witness ==
    /\ pc = "idle"
    /\ Len(dim_customer) = 3
    /\ \A i \in 1..3 : dim_customer[i].customer_id = 1
    /\ ~dim_customer[1].is_current /\ ~dim_customer[2].is_current
    /\ dim_customer[3].is_current
    /\ dim_customer[1].effective_to < dim_customer[2].effective_to

\* row i is the current version of the customer of the snapshot row the loop
\* is at, the segment of that row differs, and snapshot_date is earlier than
\* the effective_from of row i
Backdated(i) ==
    /\ pc = "loop" /\ idx <= Len(snapshot)
    /\ Transition(current_map, snapshot[idx]) = "changed"
    /\ dim_customer[i].customer_id = snapshot[idx].customer_id
    /\ dim_customer[i].is_current
    /\ snapshot_date < dim_customer[i].effective_from

\* a row that ends before it starts
EndsBeforeStart(r) == r.effective_to /= NullDate /\ r.effective_to < r.effective_from

\* C28: a changed row whose snapshot_date is earlier than the effective_from
\* of the customer's current version is neither rejected nor reordered: the
\* current version is expired as of snapshot_date (so it ends before it
\* starts), the new version is inserted as of snapshot_date, and the history
\* of the customer is then not well formed.
C28_OutOfOrderApplied ==
    [][/\ \A i \in 1..Len(dim_customer) :
            Backdated(i) =>
                /\ pc' = "insert"
                /\ dim_customer'[i] =
                     [dim_customer[i] EXCEPT !.effective_to = snapshot_date,
                                             !.is_current = FALSE]
                /\ EndsBeforeStart(dim_customer'[i])
       /\ (/\ pc = "insert"
           /\ \E r \in CustomerRows(dim_customer, snapshot[idx].customer_id) :
                 EndsBeforeStart(r) /\ r.effective_to = snapshot_date)
          => /\ Len(dim_customer') = Len(dim_customer) + 1
             /\ dim_customer'[Len(dim_customer')].effective_from = snapshot_date
             /\ dim_customer'[Len(dim_customer')].is_current
             /\ ~HistoryWellFormed(dim_customer', snapshot[idx].customer_id)]_vars

\* a call dated before a customer's current version has completed: the
\* version it expired ends before it starts
C28_Witness ==
    /\ pc = "idle"
    /\ \E i \in 1..Len(dim_customer) : EndsBeforeStart(dim_customer[i])
    /\ \E cid \in KnownCustomers(dim_customer) : ~HistoryWellFormed(dim_customer, cid)

\* C29: starting from an empty table and with one run at a time, the row
\* inserted n-th carries customer_key n, so the keys are exactly 1..N for N
\* rows, and the value a call returns is N.
C29_KeysDense ==
    /\ \A i \in 1..Len(dim_customer) : dim_customer[i].customer_key = i
    /\ KeysOf(dim_customer) = 1..Len(dim_customer)
    /\ pc = "idle" => ret = Len(dim_customer)

\* a later call has returned 3 after adding a version to a customer that an
\* earlier call had inserted
C29_Witness ==
    /\ pc = "idle"
    /\ ret = 3
    /\ KeysOf(dim_customer) = {1, 2, 3}
    /\ \E i \in 1..Len(dim_customer) : ~dim_customer[i].is_current

\* C30: raw_cur never holds two rows with the same identity_line_item_id,
\* whatever files were loaded.
C30_LineItemIdsUnique ==
    \A i, j \in 1..Len(raw_cur) :
        raw_cur[i].identity_line_item_id = raw_cur[j].identity_line_item_id => i = j

====
